---- MODULE Spec2Model ----
(***************************************************************************)
(* Translation-proofing pipeline of Veryfy_Trans:                          *)
(*   check_languages.py  the script detector (scan + configured rewrites)  *)
(*   log_parser.py       the log reader                                    *)
(*   fix_script.py       the pair builder and the substitution engine      *)
(*   gui.py              the orchestrator that runs the two scripts        *)
(* Text is a sequence of Unicode code points.  A log file is the sequence  *)
(* of its lines (what iterating the open file yields, without the line     *)
(* terminators); the target document is its full text, as f.read() gives.  *)
(***************************************************************************)
EXTENDS Integers, Sequences, FiniteSets, TLC

VARIABLES
    target,            \* the target document on disk: [st, text]
    target0,           \* history: the target document before the current run
    proofLog,          \* the findings log on disk: [st, lines]
    transLog,          \* the corrected log on disk: [st, lines]
    fpc,               \* fix_script.main: position
    replacements,      \* fix_script.main: the replacement map, or None
    todo,              \* fix_script.main: the items of the map still to iterate
    content,           \* fix_script.main: the in-memory text
    original_content,  \* fix_script.main: the text as read
    modified_count,    \* fix_script.main: rules that fired
    hits,              \* history: for each rule processed, whether it fired
    flog,              \* fix_script.main: the messages logged
    fio,               \* history: how this run opened the target ("r", "w")
    fexit,             \* fix_script.py: the exit status of the process
    replJson,          \* replacements.json on disk: [st, map]
    cpc,               \* check_languages: position
    ccontent,          \* check_languages: the in-memory text
    found_language,    \* check_languages: whether a finding was logged
    clog,              \* check_languages: the messages logged
    run,               \* history: the number of this scan of the document
    log1,              \* history: the findings log after the previous scan
    cexit,             \* check_languages.py: the exit status of the process
    gpc,               \* gui: idle, or waiting for a subprocess
    file_to_check,     \* gui: OrchestratorApp.file_to_check
    apply_enabled,     \* gui: apply_fix_button and load_translated_log_button
    sentence_pairs,    \* gui: <<label text, edit text>> per finding shown
    gmsg,              \* gui: what the last handler showed the user
    gops               \* history: the number of stage runs started

fixVars == <<fpc, replacements, todo, content, original_content,
             modified_count, hits, flog, fio, fexit>>
diskVars == <<target, target0, proofLog, transLog, replJson>>
scanVars == <<cpc, ccontent, found_language, clog, run, log1, cexit>>
guiVars == <<gpc, file_to_check, apply_enabled, sentence_pairs, gmsg, gops>>
vars == <<diskVars, fixVars, scanVars, guiVars>>

None == "None"

(***************************************************************************)
(* Characters                                                              *)
(***************************************************************************)
Ch == [sp |-> 32, nl |-> 10, lp |-> 40, rp |-> 41, a |-> 97, b |-> 98,
       c |-> 99, kana |-> 12354, han |-> 26085]

SetMin(S) == CHOOSE x \in S : \A y \in S : x <= y
SetMax(S) == CHOOSE x \in S : \A y \in S : x >= y

\* str.isspace(): the characters str.strip() removes
IsSpace(ch) ==
    \/ ch \in 9..13 \/ ch \in 28..32 \/ ch \in {133, 160, 5760}
    \/ ch \in 8192..8202 \/ ch \in {8232, 8233, 8239, 8287, 12288}

(***************************************************************************)
(* Strings                                                                 *)
(***************************************************************************)
RECURSIVE LStrip(_)
LStrip(s) == IF s # <<>> /\ IsSpace(Head(s)) THEN LStrip(Tail(s)) ELSE s

RECURSIVE RStrip(_)
RStrip(s) ==
    IF s # <<>> /\ IsSpace(s[Len(s)]) THEN RStrip(SubSeq(s, 1, Len(s) - 1)) ELSE s

\* str.strip()
Strip(s) == RStrip(LStrip(s))

\* old == s[i : i + len(old)]  (1-based i)
MatchAt(s, old, i) ==
    /\ i + Len(old) - 1 <= Len(s)
    /\ SubSeq(s, i, i + Len(old) - 1) = old

\* old in s
Occurs(old, s) == \E i \in 1..(Len(s) + 1) : MatchAt(s, old, i)

RECURSIVE ReplaceFrom(_, _, _, _)
ReplaceFrom(s, old, new, i) ==
    IF i > Len(s) THEN <<>>
    ELSE IF MatchAt(s, old, i) THEN new \o ReplaceFrom(s, old, new, i + Len(old))
    ELSE <<s[i]>> \o ReplaceFrom(s, old, new, i + 1)

RECURSIVE Interleave(_, _)
Interleave(s, new) ==
    IF s = <<>> THEN new ELSE new \o <<Head(s)>> \o Interleave(Tail(s), new)

\* s.replace(old, new, 1): the first occurrence only
ReplaceFirst(s, old, new) ==
    IF ~Occurs(old, s) THEN s
    ELSE LET i == CHOOSE k \in 1..(Len(s) + 1) :
                     MatchAt(s, old, k) /\ \A m \in 1..(k - 1) : ~MatchAt(s, old, m)
         IN  SubSeq(s, 1, i - 1) \o new \o SubSeq(s, i + Len(old), Len(s))

\* s.replace(old, new): every non-overlapping occurrence, leftmost first; an
\* empty old matches before every character and at the end
Replace(s, old, new) ==
    IF old = <<>> THEN Interleave(s, new) ELSE ReplaceFrom(s, old, new, 1)

(***************************************************************************)
(* log_parser.parse_log                                                    *)
(***************************************************************************)
RECURSIVE StripNonEmpty(_)
StripNonEmpty(lines) ==
    IF lines = <<>> THEN <<>>
    ELSE IF Strip(Head(lines)) # <<>>
         THEN <<Strip(Head(lines))>> \o StripNonEmpty(Tail(lines))
         ELSE StripNonEmpty(Tail(lines))

\* parse_log keeping each line's surrounding whitespace
parse_log_unstripped(file) ==
    IF file.st = "ok" THEN SelectSeq(file.lines, LAMBDA l : Strip(l) # <<>>) ELSE <<>>

\* the lines returned for a file
parse_log(file) == IF file.st = "ok" THEN StripNonEmpty(file.lines) ELSE <<>>

\* what parse_log logs for a file
parse_log_msgs(file) ==
    CASE file.st = "missing" -> {"WARNING parser: log file not found"}
      [] file.st = "unreadable" -> {"ERROR parser: error while parsing"}
      [] OTHER -> {}

(***************************************************************************)
(* fix_script.create_replacement_map                                       *)
(***************************************************************************)
\* an item of a dict
Rule(old, new) == <<old, new>>

\* no element occurs twice
Distinct(xs) == \A i, j \in 1..Len(xs) : xs[i] = xs[j] => i = j

\* a dict is the sequence of its items <<key, value>> in insertion order
Keys(d) == {d[i][1] : i \in 1..Len(d)}

KeyIndex(d, k) == CHOOSE i \in 1..Len(d) : d[i][1] = k

\* d.setdefault(k, v): a present key keeps its first value
DictSetFirstWins(d, k, v) == IF k \in Keys(d) THEN d ELSE Append(d, <<k, v>>)

\* d[k] = v: a new key is appended, a present key keeps its place
DictSet(d, k, v) ==
    IF k \in Keys(d) THEN [d EXCEPT ![KeyIndex(d, k)] = <<k, v>>]
    ELSE Append(d, <<k, v>>)

Min(x, y) == IF x <= y THEN x ELSE y

\* zip(original_lines, translated_lines)
Zip(xs, ys) == [i \in 1..Min(Len(xs), Len(ys)) |-> <<xs[i], ys[i]>>]

RECURSIVE DictOf(_, _)
DictOf(pairs, d) ==
    IF pairs = <<>> THEN d
    ELSE DictOf(Tail(pairs), DictSet(d, Head(pairs)[1], Head(pairs)[2]))

\* create_replacement_map failing only when both logs are empty
create_replacement_map_and(proof, translated) ==
    LET original_lines == parse_log(proof)
        translated_lines == parse_log(translated)
    IN  IF original_lines = <<>> /\ translated_lines = <<>> THEN None
        ELSE DictOf(Zip(original_lines, translated_lines), <<>>)

create_replacement_map(proof, translated) ==
    LET original_lines == parse_log(proof)
        translated_lines == parse_log(translated)
    IN  IF original_lines = <<>> \/ translated_lines = <<>> THEN None
        ELSE DictOf(Zip(original_lines, translated_lines), <<>>)

create_replacement_map_msgs(proof, translated) ==
    parse_log_msgs(proof) \cup parse_log_msgs(translated)
    \cup (IF parse_log(proof) = <<>> \/ parse_log(translated) = <<>>
          THEN {"ERROR one or both log files could not be parsed or are empty"}
          ELSE {})

(***************************************************************************)
(* fix_script.main                                                         *)
(***************************************************************************)
\* the proper prefixes of a text: what a file opened with mode 'w' can hold
\* when the write that follows the truncation raises
Prefixes(s) == {SubSeq(s, 1, n) : n \in 0..(Len(s) - 1)}

\* not x, for x a dict or None
Falsy(x) == x = None \/ x = <<>>

\* replacements = create_replacement_map(...); if not replacements: return
FixCreateMap ==
    /\ fpc = "start"
    /\ replacements' = create_replacement_map(proofLog, transLog)
    /\ IF Falsy(replacements')
       THEN /\ flog' = flog \cup create_replacement_map_msgs(proofLog, transLog)
                            \cup {"ERROR could not create replacement map"}
            /\ fpc' = "done"
            /\ fexit' = 0
       ELSE /\ flog' = flog \cup create_replacement_map_msgs(proofLog, transLog)
            /\ fpc' = "read"
            /\ fexit' = fexit
    /\ UNCHANGED <<guiVars, scanVars, diskVars, todo, content, original_content, modified_count,
                   hits, fio>>

\* with open(args.target_file, 'r') as f: content = f.read()
FixRead ==
    /\ fpc = "read"
    /\ CASE target.st = "ok" ->
              /\ content' = target.text
              /\ original_content' = target.text
              /\ todo' = replacements
              /\ fio' = fio \cup {"r"}
              /\ fpc' = "loop"
              /\ UNCHANGED <<flog, fexit>>
         [] target.st = "missing" ->
              /\ flog' = flog \cup {"ERROR target file not found"}
              /\ fpc' = "done"
              /\ fexit' = 0
              /\ UNCHANGED <<content, original_content, todo, fio>>
         [] OTHER ->
              \* any other exception of open or read is not caught
              /\ fpc' = "done"
              /\ fexit' = 1
              /\ UNCHANGED <<content, original_content, todo, fio, flog>>
    /\ UNCHANGED <<guiVars, scanVars, diskVars, replacements, modified_count, hits>>

\* the loop testing each pattern against the text as read
FixRuleOnOriginalText ==
    /\ fpc = "loop"
    /\ todo # <<>>
    /\ LET old == Head(todo)[1]
           new == Head(todo)[2]
       IN  IF Occurs(old, original_content)
           THEN /\ content' = Replace(content, old, new)
                /\ modified_count' = modified_count + 1
                /\ hits' = Append(hits, TRUE)
           ELSE /\ UNCHANGED <<content, modified_count>>
                /\ hits' = Append(hits, FALSE)
    /\ todo' = Tail(todo)
    /\ UNCHANGED <<guiVars, scanVars, diskVars, fpc, replacements, original_content, flog, fio, fexit>>

\* one iteration of: for old, new in replacements.items()
FixRule ==
    /\ fpc = "loop"
    /\ todo # <<>>
    /\ LET old == Head(todo)[1]
           new == Head(todo)[2]
       IN  IF Occurs(old, content)
           THEN /\ content' = Replace(content, old, new)
                /\ modified_count' = modified_count + 1
                /\ hits' = Append(hits, TRUE)
           ELSE /\ UNCHANGED <<content, modified_count>>
                /\ hits' = Append(hits, FALSE)
    /\ todo' = Tail(todo)
    /\ UNCHANGED <<guiVars, scanVars, diskVars, fpc, replacements, original_content, flog, fio, fexit>>

\* if original_content == content: no write
FixNoChange ==
    /\ fpc = "loop"
    /\ todo = <<>>
    /\ original_content = content
    /\ flog' = flog \cup {"INFO no changes were made"}
    /\ fpc' = "done"
    /\ fexit' = 0
    /\ UNCHANGED <<guiVars, scanVars, diskVars, replacements, todo, content, original_content,
                   modified_count, hits, fio>>

\* the write decided by the count of fired rules instead of the comparison
FixWriteWhenRuleFired ==
    /\ fpc = "loop"
    /\ todo = <<>>
    /\ modified_count > 0
    /\ fio' = fio \cup {"w"}
    /\ target' = [target EXCEPT !.text = content]
    /\ flog' = flog \cup {"INFO file modification successful"}
    /\ fpc' = "done"
    /\ fexit' = 0
    /\ UNCHANGED <<guiVars, scanVars, target0, proofLog, transLog, replJson, replacements, todo, content,
                   original_content, modified_count, hits>>

\* else: with open(args.target_file, 'w') as f: f.write(content)
FixWrite ==
    /\ fpc = "loop"
    /\ todo = <<>>
    /\ original_content # content
    /\ fio' = fio \cup {"w"}
    /\ \/ /\ target' = [target EXCEPT !.text = content]
          /\ flog' = flog \cup {"INFO file modification successful"}
       \/ \* open raises: nothing is truncated
          /\ target' = target
          /\ flog' = flog \cup {"ERROR error writing to file"}
       \/ \* open truncated the file, then the write raises
          /\ \E part \in Prefixes(content) : target' = [target EXCEPT !.text = part]
          /\ flog' = flog \cup {"ERROR error writing to file"}
    /\ fpc' = "done"
    /\ fexit' = 0
    /\ UNCHANGED <<guiVars, scanVars, target0, proofLog, transLog, replJson, replacements, todo, content,
                   original_content, modified_count, hits>>

FixNext == FixCreateMap \/ FixRead \/ FixRule \/ FixNoChange \/ FixWrite

(***************************************************************************)
(* Inputs of a fix_script.py run                                           *)
(***************************************************************************)
(***************************************************************************)
(* check_languages.check_languages                                         *)
(***************************************************************************)
MaxRuns == 2

\* json.load of replacements.json; a missing or malformed file gives {}
load_replacements(cfg) == IF cfg.st = "ok" THEN cfg.map ELSE <<>>

load_replacements_msgs(cfg) ==
    IF cfg.st \in {"missing", "malformed"}
    THEN {"ERROR could not load or parse replacements file"} ELSE {}

\* for old, new in replacements.items(): content = content.replace(old, new + ' ')
RECURSIVE ApplyConfigured(_, _)
ApplyConfigured(text, items) ==
    IF items = <<>> THEN text
    ELSE ApplyConfigured(Replace(text, Head(items)[1], Head(items)[2] \o <<Ch.sp>>),
                         Tail(items))

\* s.split(sep) for a one-character sep
RECURSIVE Split(_, _)
Split(s, sep) ==
    IF \A i \in 1..Len(s) : s[i] # sep THEN <<s>>
    ELSE LET i == CHOOSE k \in 1..Len(s) :
                     s[k] = sep /\ \A m \in 1..(k - 1) : s[m] # sep
         IN  <<SubSeq(s, 1, i - 1)>> \o Split(SubSeq(s, i + 1, Len(s)), sep)

\* re.sub(r'\(.*?\)', '', line): leftmost match first, each match the
\* shortest, from a "(" to the first ")" after it with no newline between
RECURSIVE RemoveParens(_)
\* re.sub(r'\(.*\)', '', line): the greedy pattern, from a "(" to the last ")"
RECURSIVE RemoveParensGreedy(_)
RemoveParensGreedy(line) ==
    IF line = <<>> THEN <<>>
    ELSE LET closing == {k \in 2..Len(line) : line[k] = Ch.rp}
         IN  IF Head(line) = Ch.lp /\ closing # {}
             THEN RemoveParensGreedy(SubSeq(line, SetMax(closing) + 1, Len(line)))
             ELSE <<Head(line)>> \o RemoveParensGreedy(Tail(line))

RemoveParens(line) ==
    IF line = <<>> THEN <<>>
    ELSE LET closing == {k \in 2..Len(line) :
                            /\ line[k] = Ch.rp
                            /\ \A m \in 2..(k - 1) : line[m] \notin {Ch.rp, Ch.nl}}
         IN  IF Head(line) = Ch.lp /\ closing # {}
             THEN RemoveParens(SubSeq(line, (CHOOSE k \in closing : TRUE) + 1, Len(line)))
             ELSE <<Head(line)>> \o RemoveParens(Tail(line))

\* japanese_pattern.search: [぀-ゟ゠-ヿ]+
japanese_pattern(s) ==
    \E i \in 1..Len(s) : s[i] \in 12352..12447 \/ s[i] \in 12448..12543

\* chinese_pattern.search: [一-鿿]+
chinese_pattern(s) == \E i \in 1..Len(s) : s[i] \in 19968..40959

\* the test of one line of the rewritten document
IsFinding(line) ==
    LET line_to_check == RemoveParens(line)
    IN  japanese_pattern(line_to_check) \/ chinese_pattern(line_to_check)

\* the lines the loop writes to the log file, in order
RECURSIVE FindingsOf(_)
\* variant: the loop writes the line with its parenthesized spans removed
RECURSIVE FindingsOfBare(_)
FindingsOfBare(lines) ==
    IF lines = <<>> THEN <<>>
    ELSE IF IsFinding(Head(lines))
         THEN <<Strip(RemoveParens(Head(lines)))>> \o FindingsOfBare(Tail(lines))
         ELSE FindingsOfBare(Tail(lines))

FindingsOf(lines) ==
    IF lines = <<>> THEN <<>>
    ELSE IF IsFinding(Head(lines))
         THEN <<Strip(Head(lines))>> \o FindingsOf(Tail(lines))
         ELSE FindingsOf(Tail(lines))

\* whether the utf-8 codec encodes the text (a lone surrogate is refused)
Encodable(s) == \A i \in 1..Len(s) : s[i] \notin 55296..57343

\* os.path.exists; read; load_replacements; the replace loop
ScanRead ==
    /\ cpc = "start"
    /\ CASE target.st = "missing" ->
              /\ clog' = clog \cup {"ERROR file not found"}
              /\ cpc' = "done"
              /\ UNCHANGED ccontent
         [] target.st = "ok" /\ replJson.st # "unreadable" ->
              /\ ccontent' = ApplyConfigured(target.text, load_replacements(replJson))
              /\ clog' = clog \cup load_replacements_msgs(replJson)
              /\ cpc' = "write"
         [] OTHER ->
              \* open or read of the target, or of replacements.json, raises
              /\ clog' = clog \cup {"ERROR an error occurred"}
              /\ cpc' = "done"
              /\ UNCHANGED ccontent
    /\ cexit' = IF cpc' = "done" THEN 0 ELSE cexit
    /\ UNCHANGED <<guiVars, diskVars, fixVars, found_language, run, log1>>

\* with open(file_path, 'w') as f: f.write(content)
ScanWrite ==
    /\ cpc = "write"
    /\ \/ /\ Encodable(ccontent)
          /\ target' = [target EXCEPT !.text = ccontent]
          /\ clog' = clog \cup {"INFO file content has been modified"}
          /\ cpc' = "log"
       \/ \* open raises: nothing is truncated
          /\ target' = target
          /\ clog' = clog \cup {"ERROR an error occurred"}
          /\ cpc' = "done"
       \/ \* open truncated the file, then encoding or writing raises
          /\ IF Encodable(ccontent)
             THEN \E part \in Prefixes(ccontent) : target' = [target EXCEPT !.text = part]
             ELSE target' = [target EXCEPT !.text = <<>>]
          /\ clog' = clog \cup {"ERROR an error occurred"}
          /\ cpc' = "done"
    /\ cexit' = IF cpc' = "done" THEN 0 ELSE cexit
    /\ UNCHANGED <<guiVars, target0, proofLog, transLog, replJson, fixVars,
                   ccontent, found_language, run, log1>>

\* the whole-line prefixes of the findings: what the log holds when a write
\* to it raises
LinePrefixes(lines) == {SubSeq(lines, 1, n) : n \in 0..(Len(lines) - 1)}

\* the loop over final_lines with the log opened in mode 'a'
ScanLogAppend ==
    /\ cpc = "log"
    /\ LET final_lines == Split(ccontent, Ch.nl)
           findings == FindingsOf(final_lines)
       IN  /\ proofLog' = [st |-> "ok", lines |-> proofLog.lines \o findings]
           /\ found_language' = (findings # <<>>)
           /\ clog' = clog \cup
                 (IF findings = <<>> THEN {"INFO no Japanese or Chinese characters"}
                  ELSE {"INFO language check finished"})
    /\ cpc' = "done"
    /\ cexit' = 0
    /\ UNCHANGED <<guiVars, target, target0, transLog, replJson, fixVars,
                   ccontent, run, log1>>

\* with open(log_file, 'w') as log_f: the loop over final_lines
ScanLog ==
    /\ cpc = "log"
    /\ LET final_lines == Split(ccontent, Ch.nl)
           findings == FindingsOf(final_lines)
       IN  \/ /\ proofLog' = [st |-> "ok", lines |-> findings]
              /\ found_language' = (findings # <<>>)
              /\ clog' = clog \cup
                    (IF findings = <<>> THEN {"INFO no Japanese or Chinese characters"}
                     ELSE {"INFO language check finished"})
           \/ \* open raises: the old log stays
              /\ proofLog' = proofLog
              /\ clog' = clog \cup {"ERROR an error occurred"}
              /\ UNCHANGED found_language
           \/ \* a write raises after some of the findings
              /\ \E part \in LinePrefixes(findings) :
                    /\ proofLog' = [st |-> "ok", lines |-> part]
                    /\ found_language' = (part # <<>>)
              /\ clog' = clog \cup {"ERROR an error occurred"}
    /\ cpc' = "done"
    /\ cexit' = 0
    /\ UNCHANGED <<guiVars, target, target0, transLog, replJson, fixVars,
                   ccontent, run, log1>>

\* the run ended in one of its error branches
ScanFailed == clog \cap {"ERROR file not found", "ERROR an error occurred"} # {}

\* the script run once more on the same document
ScanAgain ==
    /\ cpc = "done"
    /\ ~ScanFailed
    /\ run < MaxRuns
    /\ run' = run + 1
    /\ target0' = target
    /\ log1' = proofLog
    /\ cpc' = "start"
    /\ clog' = {}
    /\ found_language' = FALSE
    /\ cexit' = -1
    /\ UNCHANGED <<guiVars, target, proofLog, transLog, replJson, fixVars, ccontent>>

ScanNext == ScanRead \/ ScanWrite \/ ScanLog \/ ScanAgain

ScanProcIdle ==
    /\ cpc = "idle"
    /\ ccontent = <<>>
    /\ found_language = FALSE
    /\ clog = {}
    /\ run = 0
    /\ log1 = None
    /\ cexit = -1

(***************************************************************************)
(* gui.OrchestratorApp                                                     *)
(***************************************************************************)
MaxGuiOps == 3

\* what the user may type into a correction field
EditTexts == {<<>>, <<Ch.b>>, <<Ch.b, Ch.nl, Ch.c>>}

\* select_and_run_check up to subprocess.run: the file dialog returns the
\* target document and check_languages.py is started on it
GuiSelectAndRunCheck ==
    /\ gpc = "idle"
    /\ gops < MaxGuiOps
    /\ gops' = gops + 1
    /\ file_to_check' = "target"
    /\ gpc' = "checking"
    /\ cpc' = "start"
    /\ clog' = {}
    /\ found_language' = FALSE
    /\ ccontent' = <<>>
    /\ run' = 1
    /\ log1' = None
    /\ cexit' = -1
    /\ target0' = target
    /\ UNCHANGED <<target, proofLog, transLog, replJson, fixVars, apply_enabled,
                   sentence_pairs, gmsg>>

\* the interpreter cannot run check_languages.py: a non-zero exit status
ScanCrash ==
    /\ cpc = "start"
    /\ cpc' = "done"
    /\ cexit' = 2
    /\ UNCHANGED <<guiVars, diskVars, fixVars, ccontent, found_language, clog,
                   run, log1>>

\* the labels and edits load_check_log builds from the lines of the log
PairsOf(lines) == [i \in 1..Len(lines) |-> <<lines[i], lines[i]>>]

\* select_and_run_check after subprocess.run(check=True): load_check_log, or
\* the except branch on a non-zero exit status
GuiAfterCheck ==
    /\ gpc = "checking"
    /\ cpc = "done"
    /\ gpc' = "idle"
    /\ IF cexit = 0
       THEN LET original_lines == parse_log(proofLog)
            IN  /\ sentence_pairs' = PairsOf(original_lines)
                /\ apply_enabled' = (original_lines # <<>>)
                /\ gmsg' = IF original_lines = <<>>
                           THEN {"warning: no log or nothing detected"}
                           ELSE {"status: findings loaded"}
       ELSE /\ gmsg' = {"critical: check_languages.py failed"}
            /\ UNCHANGED <<sentence_pairs, apply_enabled>>
    /\ UNCHANGED <<diskVars, fixVars, scanVars, file_to_check, gops>>

\* the user replaces the text of one correction field
GuiEdit ==
    /\ gpc = "idle"
    /\ apply_enabled
    /\ \E i \in 1..Len(sentence_pairs), text \in EditTexts :
          sentence_pairs' = [sentence_pairs EXCEPT ![i][2] = text]
    /\ UNCHANGED <<diskVars, fixVars, scanVars, gpc, file_to_check, apply_enabled,
                   gmsg, gops>>

\* setPlainText(line) on the first len(sentence_pairs) fields
RECURSIVE FillEdits(_, _, _)
FillEdits(pairs, parsed_lines, i) ==
    IF i > Len(parsed_lines) \/ i > Len(pairs) THEN pairs
    ELSE FillEdits([pairs EXCEPT ![i][2] = parsed_lines[i]], parsed_lines, i + 1)

\* load_translated_log: the file dialog returns the corrected log on disk
GuiLoadTranslatedLog ==
    /\ gpc = "idle"
    /\ apply_enabled
    /\ LET parsed_lines == parse_log(transLog)
       IN  IF parsed_lines = <<>>
           THEN /\ gmsg' = {"critical: corrected log unreadable or empty"}
                /\ UNCHANGED sentence_pairs
           ELSE /\ sentence_pairs' = FillEdits(sentence_pairs, parsed_lines, 1)
                /\ gmsg' = {"status: corrections loaded"} \cup
                      (IF Len(parsed_lines) # Len(sentence_pairs)
                       THEN {"warning: item counts differ"} ELSE {})
    /\ UNCHANGED <<diskVars, fixVars, scanVars, gpc, file_to_check, apply_enabled,
                   gops>>

\* the lines of the file after f.write(f"{translated_text}\n") per field
RECURSIVE WrittenLines(_)
WrittenLines(pairs) ==
    IF pairs = <<>> THEN <<>>
    ELSE Split(Strip(Head(pairs)[2]), Ch.nl) \o WrittenLines(Tail(pairs))

\* save_and_apply_fixes up to subprocess.run: the corrected log is written
\* and fix_script.py is started
GuiSaveAndApply ==
    /\ gpc = "idle"
    /\ apply_enabled
    /\ gops < MaxGuiOps
    /\ IF file_to_check = None
       THEN /\ gmsg' = {"critical: no target file selected"}
            /\ UNCHANGED <<diskVars, fixVars, gpc, gops>>
       ELSE /\ gops' = gops + 1
            /\ transLog' = [st |-> "ok", lines |-> WrittenLines(sentence_pairs)]
            /\ gpc' = "fixing"
            /\ fpc' = "start"
            /\ replacements' = None
            /\ todo' = <<>>
            /\ content' = <<>>
            /\ original_content' = <<>>
            /\ modified_count' = 0
            /\ hits' = <<>>
            /\ flog' = {}
            /\ fio' = {}
            /\ fexit' = -1
            /\ target0' = target
            /\ UNCHANGED <<target, proofLog, replJson, gmsg>>
    /\ UNCHANGED <<scanVars, file_to_check, apply_enabled, sentence_pairs>>

\* save_and_apply_fixes after subprocess.run(check=True): the success dialog
\* and the reset, or the except branch on a non-zero exit status
GuiAfterFix ==
    /\ gpc = "fixing"
    /\ fpc = "done"
    /\ gpc' = "idle"
    /\ IF fexit = 0
       THEN /\ gmsg' = {"information: fixes applied"}
            /\ file_to_check' = None
            /\ apply_enabled' = FALSE
       ELSE /\ gmsg' = {"critical: fix_script.py failed"}
            /\ UNCHANGED <<file_to_check, apply_enabled>>
    /\ UNCHANGED <<diskVars, fixVars, scanVars, sentence_pairs, gops>>

GuiIdle ==
    /\ gpc = "idle"
    /\ file_to_check = None
    /\ apply_enabled = FALSE
    /\ sentence_pairs = <<>>
    /\ gmsg = {}
    /\ gops = 0

(***************************************************************************)
(* The pipeline run from the command line: check_languages.py, a corrected *)
(* log supplied for its findings, fix_script.py                            *)
(***************************************************************************)
\* the corrected lines the human collaborator may supply
CorrectionLines == {<<Ch.b>>, <<Ch.c>>, <<Ch.han>>}

\* the logs of exactly n lines over a set of lines
RECURSIVE LinesOfLen(_, _)
LinesOfLen(S, n) ==
    IF n = 0 THEN {<<>>}
    ELSE {Append(l, x) : l \in LinesOfLen(S, n - 1), x \in S}

\* after a completed scan, a corrected log with one line per finding is
\* written and fix_script.py is started on the three paths
PipeCorrect ==
    /\ cpc = "done"
    /\ ~ScanFailed
    /\ fpc = "idle"
    /\ \E lines \in LinesOfLen(CorrectionLines, Len(proofLog.lines)) :
          transLog' = [st |-> "ok", lines |-> lines]
    /\ target0' = target
    /\ fpc' = "start"
    /\ UNCHANGED <<guiVars, scanVars, target, proofLog, replJson, replacements,
                   todo, content, original_content, modified_count, hits, flog,
                   fio, fexit>>

MaxLogLines == 3

RECURSIVE SeqsUpTo(_, _)
SeqsUpTo(S, n) ==
    IF n = 0 THEN {<<>>}
    ELSE LET shorter == SeqsUpTo(S, n - 1)
         IN  shorter \cup {Append(s, x) : s \in shorter, x \in S}

FindingLines == {<<>>, <<Ch.a>>, <<Ch.a, Ch.b>>, <<Ch.sp, Ch.b>>}
CorrectedLines == {<<Ch.sp>>, <<Ch.b>>, <<Ch.c, Ch.sp>>}
\* the target texts tried: empty, single patterns, repeated and adjacent
\* occurrences, and an occurrence next to whitespace
FixDocTexts ==
    { <<>>, <<Ch.a>>, <<Ch.b>>, <<Ch.a, Ch.b>>, <<Ch.b, Ch.a, Ch.b>>,
      <<Ch.a, Ch.b, Ch.a, Ch.b>>, <<Ch.a, Ch.a, Ch.nl, Ch.sp, Ch.b>> }

LogFiles(lines) ==
    {[st |-> "ok", lines |-> l] : l \in SeqsUpTo(lines, MaxLogLines)}
    \cup {[st |-> s, lines |-> <<>>] : s \in {"missing", "unreadable"}}

FixDocs ==
    {[st |-> "ok", text |-> t] : t \in FixDocTexts}
    \cup {[st |-> s, text |-> <<>>] : s \in {"missing", "unreadable"}}

FixProcIdle ==
    /\ fpc = "idle"
    /\ replacements = None
    /\ todo = <<>>
    /\ content = <<>>
    /\ original_content = <<>>
    /\ modified_count = 0
    /\ hits = <<>>
    /\ flog = {}
    /\ fio = {}
    /\ fexit = -1

FixProcInit ==
    /\ fpc = "start"
    /\ replacements = None
    /\ todo = <<>>
    /\ content = <<>>
    /\ original_content = <<>>
    /\ modified_count = 0
    /\ hits = <<>>
    /\ flog = {}
    /\ fio = {}
    /\ fexit = -1

FixInit ==
    /\ target \in FixDocs
    /\ target0 = target
    /\ proofLog \in LogFiles(FindingLines)
    /\ transLog \in LogFiles(CorrectedLines)
    /\ replJson = [st |-> "missing", map |-> <<>>]
    /\ FixProcInit
    /\ ScanProcIdle
    /\ GuiIdle

SpecFix == FixInit /\ [][FixNext]_vars

(***************************************************************************)
(* Inputs of a check_languages.py run                                      *)
(***************************************************************************)
MaxScanDocLen == 5
MaxRules == 2
MaxRuleDocLen == 3

ScanDocChars == {Ch.lp, Ch.rp, Ch.han, Ch.sp, Ch.nl}

\* documents with Latin text, kana, and the characters next to the two ranges
ExtraDocs ==
    { <<Ch.a, Ch.lp, Ch.kana, Ch.rp, Ch.a>>, <<Ch.a, Ch.kana, Ch.a>>,
      <<Ch.sp, Ch.a, Ch.nl, Ch.lp, Ch.han, Ch.lp, Ch.a, Ch.rp, Ch.han, Ch.rp>>,
      <<Ch.lp, Ch.han, Ch.rp, Ch.nl, Ch.sp, Ch.han>>,
      <<12351, Ch.nl, 12352, Ch.nl, 12543, Ch.nl, 12544>>,
      <<19967, Ch.nl, 19968, Ch.nl, 40959, Ch.nl, 40960>> }

OkDoc(t) == [st |-> "ok", text |-> t]
OkMap(m) == [st |-> "ok", map |-> m]

\* a previous scan's findings log, or none
StaleLogs == {[st |-> "missing", lines |-> <<>>],
              [st |-> "ok", lines |-> <<(<<Ch.han, Ch.a>>)>>]}

\* the configured substitutions tried on the documents with parentheses;
\* the last one is a value json.load accepts and utf-8 refuses ("\ud800")
ParenConfigs ==
    {[st |-> x, map |-> <<>>] : x \in {"missing", "malformed", "unreadable"}}
    \cup {OkMap(<<Rule(<<Ch.sp>>, <<Ch.han>>)>>), OkMap(<<Rule(<<Ch.han>>, <<55296>>)>>)}

RuleKeys == {<<Ch.a>>, <<Ch.b>>, <<Ch.sp, Ch.b>>}
RuleVals == {<<>>, <<Ch.b>>, <<Ch.c>>, <<Ch.han>>}
RuleDocChars == {Ch.a, Ch.b, Ch.sp}

\* the dicts of at most n items over the keys and values
RECURSIVE Dicts(_)
Dicts(n) ==
    IF n = 0 THEN {<<>>}
    ELSE LET smaller == Dicts(n - 1)
         IN  smaller \cup {Append(d, Rule(k, v)) :
                              d \in smaller, k \in RuleKeys, v \in RuleVals}

RuleConfigs == {OkMap(d) : d \in {x \in Dicts(MaxRules) : Distinct(x) /\
                   \A i, j \in 1..Len(x) : x[i][1] = x[j][1] => i = j}}

ScanProcInit ==
    /\ cpc = "start"
    /\ ccontent = <<>>
    /\ found_language = FALSE
    /\ clog = {}
    /\ run = 1
    /\ log1 = None
    /\ cexit = -1

ScanInit ==
    /\ \/ /\ target \in {OkDoc(t) : t \in SeqsUpTo(ScanDocChars, MaxScanDocLen) \cup ExtraDocs}
                      \cup {[st |-> x, text |-> <<>>] : x \in {"missing", "unreadable"}}
          /\ replJson \in ParenConfigs
       \/ /\ target \in {OkDoc(t) : t \in SeqsUpTo(RuleDocChars, MaxRuleDocLen)}
          /\ replJson \in RuleConfigs
    /\ target0 = target
    /\ proofLog \in StaleLogs
    /\ transLog = [st |-> "missing", lines |-> <<>>]
    /\ FixProcIdle
    /\ ScanProcInit
    /\ GuiIdle

SpecScan == ScanInit /\ [][ScanNext]_vars

(***************************************************************************)
(* Inputs of a session of the orchestrator                                 *)
(***************************************************************************)
GuiDocs == {OkDoc(<<Ch.han>>), OkDoc(<<Ch.a, Ch.nl, Ch.han, Ch.sp>>),
            OkDoc(<<Ch.a>>), [st |-> "unreadable", text |-> <<>>]}

GuiConfigs == {[st |-> "missing", map |-> <<>>], OkMap(<<Rule(<<Ch.a>>, <<Ch.kana>>)>>),
               OkMap(<<Rule(<<Ch.han>>, <<55296>>)>>)}

GuiInit ==
    /\ target \in GuiDocs
    /\ target0 = target
    /\ replJson \in GuiConfigs
    /\ proofLog \in StaleLogs
    /\ transLog = [st |-> "missing", lines |-> <<>>]
    /\ FixProcIdle
    /\ ScanProcIdle
    /\ GuiIdle

GuiNext ==
    \/ GuiSelectAndRunCheck \/ ScanCrash \/ ScanRead \/ ScanWrite \/ ScanLog
    \/ GuiAfterCheck \/ GuiEdit \/ GuiLoadTranslatedLog \/ GuiSaveAndApply
    \/ FixCreateMap \/ FixRead \/ FixRule \/ FixNoChange \/ FixWrite
    \/ GuiAfterFix

SpecGui == GuiInit /\ [][GuiNext]_vars

(***************************************************************************)
(* Inputs of a pipeline run                                                *)
(***************************************************************************)
MaxPipeDocLen == 4

PipeDocChars == {Ch.han, Ch.kana, Ch.lp, Ch.rp, Ch.sp, Ch.nl}

\* longer documents: a finding between blanks above an empty group and a
\* second finding; a finding that also stands in a parenthesized line
PipeExtraDocs ==
    { <<Ch.sp, Ch.han, Ch.sp, Ch.nl, Ch.lp, Ch.rp, Ch.nl, Ch.kana>>,
      <<Ch.lp, Ch.han, Ch.rp, Ch.nl, Ch.han>> }

PipeConfigs == {[st |-> "missing", map |-> <<>>], OkMap(<<Rule(<<Ch.lp, Ch.rp>>, <<Ch.kana>>)>>)}

PipeInit ==
    /\ target \in {OkDoc(t) : t \in SeqsUpTo(PipeDocChars, MaxPipeDocLen) \cup PipeExtraDocs}
    /\ target0 = target
    /\ replJson \in PipeConfigs
    /\ proofLog \in StaleLogs
    /\ transLog = [st |-> "missing", lines |-> <<>>]
    /\ FixProcIdle
    /\ ScanProcInit
    /\ GuiIdle

PipeNext ==
    \/ ScanRead \/ ScanWrite \/ ScanLog \/ PipeCorrect
    \/ FixCreateMap \/ FixRead \/ FixRule \/ FixNoChange \/ FixWrite

SpecPipe == PipeInit /\ [][PipeNext]_vars

(***************************************************************************)
(* Properties of fix_script.py (SpecFix)                                   *)
(***************************************************************************)
\* the rules main has processed so far
Processed == SubSeq(replacements, 1, Len(replacements) - Len(todo))

\* the loop is running or has run
InLoop == fpc \in {"loop", "done"} /\ "r" \in fio

\* the rules applied one at a time, each to the text the earlier ones left
RECURSIVE RulesInOrder(_, _)
RulesInOrder(text, rules) ==
    IF rules = <<>> THEN text
    ELSE RulesInOrder(Replace(text, Head(rules)[1], Head(rules)[2]), Tail(rules))

\* the rules whose pattern is in the text the earlier rules left
Fired(text, rules) ==
    {i \in 1..Len(rules) :
        Occurs(rules[i][1], RulesInOrder(text, SubSeq(rules, 1, i - 1)))}

\* C1: the text after the loop is the text as read with the rules of the map
\* applied one at a time in insertion order, each replacing every
\* non-overlapping occurrence of its pattern in the text the earlier rules
\* left; "a" under a->b, b->c ends as "c"; modified_count counts the rules
\* whose pattern was in the current text when they were processed.
C1_SequentialCascade ==
    InLoop =>
       /\ content = RulesInOrder(original_content, Processed)
       /\ modified_count = Cardinality(Fired(original_content, Processed))
       /\ \A i \in 1..Len(hits) : hits[i] <=> i \in Fired(original_content, Processed)
       /\ ( /\ original_content = <<Ch.a>>
            /\ replacements = <<Rule(<<Ch.a>>, <<Ch.b>>), Rule(<<Ch.b>>, <<Ch.c>>)>>
            /\ todo = <<>> ) => content = <<Ch.c>>

\* a run in which the second rule matched only text the first rule introduced
C1_Witness ==
    /\ fpc = "done"
    /\ original_content = <<Ch.a>>
    /\ replacements = <<Rule(<<Ch.a>>, <<Ch.b>>), Rule(<<Ch.b>>, <<Ch.c>>)>>
    /\ content = <<Ch.c>>
    /\ modified_count = 2

\* every line of a readable log is non-blank
AllNonBlank(file) ==
    file.st = "ok" /\ \A i \in 1..Len(file.lines) : Strip(file.lines[i]) # <<>>

\* C2: two non-empty logs of n non-blank lines each, the trimmed finding
\* lines pairwise distinct, give a map of exactly n entries whose i-th entry,
\* in insertion order, maps the i-th finding to the i-th corrected line.
C2_PositionalPairs ==
    ( /\ fpc # "start"
      /\ AllNonBlank(proofLog) /\ AllNonBlank(transLog)
      /\ Len(proofLog.lines) = Len(transLog.lines)
      /\ Len(proofLog.lines) > 0
      /\ Distinct([i \in 1..Len(proofLog.lines) |-> Strip(proofLog.lines[i])]) )
    => /\ replacements # None
       /\ Len(replacements) = Len(proofLog.lines)
       /\ \A i \in 1..Len(replacements) :
             replacements[i] = <<Strip(proofLog.lines[i]), Strip(transLog.lines[i])>>

\* three distinct findings paired with three corrections
C2_Witness ==
    /\ fpc # "start"
    /\ AllNonBlank(proofLog) /\ AllNonBlank(transLog)
    /\ Len(proofLog.lines) = 3 /\ Len(transLog.lines) = 3
    /\ Distinct([i \in 1..3 |-> Strip(proofLog.lines[i])])
    /\ replacements # None /\ Len(replacements) = 3
    /\ \E i \in 1..3 : proofLog.lines[i] # Strip(proofLog.lines[i])

\* C4: after all rules, the target is opened for writing iff the final text
\* differs from the text read; when no pattern of the map occurs in the
\* document, no rule fires, "no changes" is reported, the file is not opened
\* for writing and keeps its content.
C4_WriteIffChanged ==
    /\ "w" \in fio => fpc = "done" /\ content # original_content
    /\ (fpc = "done" /\ "r" \in fio) =>
          /\ "w" \in fio <=> content # original_content
          /\ (\A i \in 1..Len(replacements) :
                 ~Occurs(replacements[i][1], original_content))
             => /\ modified_count = 0
                /\ "INFO no changes were made" \in flog
                /\ "w" \notin fio
                /\ target = target0

\* a run whose rule fired without changing the text: nothing is written
C4_Witness ==
    /\ fpc = "done"
    /\ modified_count > 0
    /\ content = original_content
    /\ "w" \notin fio
    /\ "INFO no changes were made" \in flog

\* a log with nothing to pair: missing, unreadable, or without a non-blank line
NoData(file) ==
    file.st # "ok" \/ \A i \in 1..Len(file.lines) : Strip(file.lines[i]) = <<>>

IsWarning(m) == m \in {"WARNING parser: log file not found",
                       "WARNING line counts of the logs differ"}

\* C5: both logs non-empty but of different lengths: the map is built from
\* the first min(len) positional pairs, a warning about the mismatch is
\* logged, and the run goes on to the substitution.
C5_MismatchWarned ==
    LET o == parse_log(proofLog)
        t == parse_log(transLog)
    IN  (fpc # "start" /\ o # <<>> /\ t # <<>> /\ Len(o) # Len(t))
        => /\ replacements = DictOf(Zip(o, t), <<>>)
           /\ Len(replacements) <= Min(Len(o), Len(t))
           /\ "ERROR could not create replacement map" \notin flog
           /\ \E m \in flog : IsWarning(m)

\* C9: when either log is missing, unreadable or without a non-blank line,
\* create_replacement_map logs an error and returns None, and the run ends
\* without opening the target, which keeps its content.
C9_NoMapNoTouch ==
    (fpc # "start" /\ (NoData(proofLog) \/ NoData(transLog)))
    => /\ replacements = None
       /\ "ERROR one or both log files could not be parsed or are empty" \in flog
       /\ "ERROR could not create replacement map" \in flog
       /\ fpc = "done"
       /\ fio = {}
       /\ target = target0

\* a run stopped by a corrected log holding only blank lines
C9_Witness ==
    /\ fpc = "done"
    /\ ~NoData(proofLog)
    /\ transLog.st = "ok" /\ Len(transLog.lines) > 0 /\ NoData(transLog)
    /\ target.st = "ok"
    /\ replacements = None

\* the positions of a line within the zipped part of the findings
Positions(o, n, k) == {i \in 1..n : o[i] = k}

\* C10: a finding line occurring at several positions has one entry in the
\* map; its replacement is the corrected line paired with its last occurrence
\* within the zipped length, and the entries are ordered by first occurrence.
C10_LastWriteWins ==
    LET o == parse_log(proofLog)
        t == parse_log(transLog)
        n == Min(Len(o), Len(t))
    IN  (fpc # "start" /\ n > 0)
        => /\ replacements # None
           /\ Distinct([i \in 1..Len(replacements) |-> replacements[i][1]])
           /\ Keys(replacements) = {o[i] : i \in 1..n}
           /\ \A j \in 1..Len(replacements) :
                 replacements[j][2] = t[SetMax(Positions(o, n, replacements[j][1]))]
           /\ \A j, k \in 1..Len(replacements) :
                 j < k => SetMin(Positions(o, n, replacements[j][1]))
                          < SetMin(Positions(o, n, replacements[k][1]))

\* a finding logged first and third, with different corrections, and another
\* finding between them
C10_Witness ==
    LET o == parse_log(proofLog)
        t == parse_log(transLog)
    IN  /\ fpc # "start"
        /\ Len(o) = 3 /\ Len(t) = 3
        /\ o[1] = o[3] /\ o[1] # o[2] /\ t[1] # t[3]
        /\ replacements = <<Rule(o[1], t[3]), Rule(o[2], t[2])>>

(***************************************************************************)
(* Properties of check_languages.py (SpecScan)                             *)
(***************************************************************************)
\* the current run wrote the document and the whole findings log
ScanCompleted ==
    /\ cpc = "done"
    /\ clog \cap {"INFO language check finished",
                  "INFO no Japanese or Chinese characters"} # {}

\* a Hiragana/Katakana or CJK Unified Ideographs character
IsScript(ch) == ch \in 12352..12543 \/ ch \in 19968..40959

\* position i of the line lies in a parenthesized span: a "(" at or before
\* it with no ")" between them, and a ")" at or after it
InsideParens(line, i) ==
    /\ \E j \in 1..i : line[j] = Ch.lp /\ \A m \in j..(i - 1) : line[m] # Ch.rp
    /\ \E k \in i..Len(line) : line[k] = Ch.rp

ScriptOutsideParens(line) ==
    \E i \in 1..Len(line) : IsScript(line[i]) /\ ~InsideParens(line, i)

Range(xs) == {xs[i] : i \in 1..Len(xs)}

\* C3: after a scan, a line of the rewritten document is in the findings log,
\* as its unaltered text trimmed, iff one of its Hiragana/Katakana or CJK
\* characters lies outside every parenthesized span "(...)" (spans taken
\* leftmost first, each ending at the first ")", not nested); a line whose
\* script characters all lie inside such spans is not logged.
C3_ParenExemption ==
    ScanCompleted =>
        LET lines == Split(target.text, Ch.nl)
        IN  /\ \A i \in 1..Len(lines) :
                  ScriptOutsideParens(lines[i]) <=> Strip(lines[i]) \in Range(proofLog.lines)
            /\ Len(proofLog.lines) =
                  Cardinality({i \in 1..Len(lines) : ScriptOutsideParens(lines[i])})

\* a scan of "(日)" above " 日": only the second line is logged, trimmed
C3_Witness ==
    /\ ScanCompleted
    /\ target.text = <<Ch.lp, Ch.han, Ch.rp, Ch.nl, Ch.sp, Ch.han>>
    /\ proofLog.lines = <<(<<Ch.han>>)>>

Chars(s) == {s[i] : i \in 1..Len(s)}

\* a scan that completed after an earlier completed scan of the same document
Rescanned == run >= 2 /\ ScanCompleted /\ replJson.st = "ok"

\* the entry applied to its own result changes nothing: its pattern is not
\* empty and shares no character with its replacement or the appended space
EntryIdempotent(e) ==
    e[1] # <<>> /\ Chars(e[1]) \cap (Chars(e[2]) \cup {Ch.sp}) = {}

\* C6 as stated: with every entry of the mapping idempotent, a second scan
\* leaves the document and the findings log as the first scan left them.
C6_RescanIdempotent ==
    (Rescanned /\ \A i \in 1..Len(replJson.map) : EntryIdempotent(replJson.map[i]))
    => target.text = target0.text /\ proofLog = log1

\* no pattern shares a character with any replacement of the mapping or with
\* the appended space
NoRuleFeedsAnother(m) ==
    \A i, j \in 1..Len(m) :
        m[i][1] # <<>> /\ Chars(m[i][1]) \cap (Chars(m[j][2]) \cup {Ch.sp}) = {}

\* C6 amended: when no pattern of the mapping shares a character with any
\* replacement of the mapping or with the appended space, a second completed
\* scan leaves the document and the findings log as the first left them.
C6_RescanIdempotentNoFeed ==
    (Rescanned /\ NoRuleFeedsAnother(replJson.map))
    => target.text = target0.text /\ proofLog = log1

\* a second scan after a first one that rewrote "a" into a finding
C6_Witness ==
    /\ Rescanned
    /\ NoRuleFeedsAnother(replJson.map)
    /\ replJson.map = <<Rule(<<Ch.a>>, <<Ch.han>>), Rule(<<Ch.b>>, <<Ch.c>>)>>
    /\ target.text = <<Ch.han, Ch.sp, Ch.c, Ch.sp>>
    /\ proofLog.lines = <<(<<Ch.han, Ch.sp, Ch.c>>)>>

\* C8: when a stage has ended, the target document holds exactly its content
\* from before the stage or exactly the full rewritten content, also when a
\* write or a later step of the stage failed; a failed write leaves the
\* original content in place and is logged.
C8_WholeFileWrite ==
    /\ (cpc = "done" /\ target.st = "ok") =>
          /\ target.text \in {target0.text, ccontent}
          /\ target.text # target0.text => "INFO file content has been modified" \in clog
    /\ (fpc = "done" /\ target.st = "ok" /\ "r" \in fio) =>
          /\ target.text \in {original_content, content}
          /\ "ERROR error writing to file" \in flog => target.text = original_content

(***************************************************************************)
(* Properties of the orchestrator (SpecGui)                                *)
(***************************************************************************)
\* the last handler that ran to its end was select_and_run_check
AfterCheck ==
    gpc = "idle" /\ gmsg \cap {"warning: no log or nothing detected",
                               "status: findings loaded",
                               "critical: check_languages.py failed"} # {}

\* the last handler that ran to its end was save_and_apply_fixes
AfterFix ==
    gpc = "idle" /\ gmsg \cap {"information: fixes applied",
                               "critical: fix_script.py failed"} # {}

\* the detector stage failed: a non-zero exit status or an error branch
DetectorFailed == cexit # 0 \/ ScanFailed

\* the substitution stage failed: no map, no target, an uncaught exception
\* or a write error
FixFailed ==
    \/ fexit # 0
    \/ flog \cap {"ERROR could not create replacement map",
                  "ERROR target file not found",
                  "ERROR error writing to file"} # {}

\* C7: when the detector stage failed, the GUI shows the failure and neither
\* loads findings nor enables the apply step; when the substitution stage
\* failed, the GUI shows the failure and does not report the fixes as applied.
C7_FailureStopsNextStage ==
    /\ (AfterCheck /\ DetectorFailed) =>
          /\ "critical: check_languages.py failed" \in gmsg
          /\ "status: findings loaded" \notin gmsg
          /\ ~apply_enabled
    /\ (AfterFix /\ FixFailed) =>
          /\ "critical: fix_script.py failed" \in gmsg
          /\ "information: fixes applied" \notin gmsg

(***************************************************************************)
(* Findings log freshness (SpecScan)                                       *)
(***************************************************************************)
\* the trimmed texts of the lines with a script character outside the
\* parenthesized spans, top to bottom
RECURSIVE TrimmedFindings(_)
TrimmedFindings(lines) ==
    IF lines = <<>> THEN <<>>
    ELSE (IF ScriptOutsideParens(Head(lines)) THEN <<Strip(Head(lines))>> ELSE <<>>)
         \o TrimmedFindings(Tail(lines))

\* the findings log is exactly the findings of the document now on disk
LogIsOfDocument ==
    /\ proofLog.st = "ok"
    /\ proofLog.lines = TrimmedFindings(Split(target.text, Ch.nl))

ShownPairs ==
    [i \in 1..Len(sentence_pairs) |->
        Rule(sentence_pairs[i][1], Strip(sentence_pairs[i][2]))]

\* C12: once save_and_apply_fixes has written the corrected log and
\* create_replacement_map has read it back, the i-th finding is paired with
\* the text of the i-th correction field, for every i, whatever the fields
\* hold (an emptied field, a field of several lines).
C12_FieldsStayAligned ==
    (gpc = "fixing" /\ fpc # "start")
    => /\ Zip(parse_log(proofLog), parse_log(transLog)) = ShownPairs
       /\ replacements = DictOf(ShownPairs, <<>>)


(***************************************************************************)
(* The pipeline from end to end                                            *)
(***************************************************************************)
\* fix_script.py has run to its end on the document the scan left behind
PipeCompleted ==
    /\ cpc = "done" /\ ~ScanFailed
    /\ fpc = "done" /\ ~FixFailed
    /\ "r" \in fio

\* the lines of the scanned document, and the corrected lines in order
ScannedLines == Split(target0.text, Ch.nl)

FindingIndexes == {i \in 1..Len(ScannedLines) : ScriptOutsideParens(ScannedLines[i])}

\* the position in the findings log of the finding on line i
RankOf(i) == Cardinality({j \in FindingIndexes : j <= i})

\* line i with its trimmed text replaced by the paired correction, the
\* whitespace around the trimmed text kept
CorrectedLine(i) ==
    LET l == ScannedLines[i]
        lead == Len(l) - Len(LStrip(l))
    IN  SubSeq(l, 1, lead)
        \o transLog.lines[RankOf(i)]
        \o SubSeq(l, lead + Len(Strip(l)) + 1, Len(l))

ExpectedLines ==
    [i \in 1..Len(ScannedLines) |->
        IF i \in FindingIndexes THEN CorrectedLine(i) ELSE ScannedLines[i]]

FindingsDistinct ==
    \A i, j \in FindingIndexes :
        i # j => Strip(ScannedLines[i]) # Strip(ScannedLines[j])

EachLineAsExpected ==
    /\ target.st = "ok"
    /\ Split(target.text, Ch.nl) = ExpectedLines

\* no finding's trimmed text stands in another line of the document, as
\* scanned or as corrected
NoFindingInAnotherLine ==
    \A j \in FindingIndexes : \A i \in 1..Len(ScannedLines) :
        i # j =>
            /\ ~Occurs(Strip(ScannedLines[j]), ScannedLines[i])
            /\ i \in FindingIndexes => ~Occurs(Strip(ScannedLines[j]), CorrectedLine(i))

\* C13 as stated: after a scan, a corrected log of equal length and the
\* substitution on the same document, when the findings are pairwise
\* distinct every finding line has its trimmed text replaced by its paired
\* correction and every other line is unchanged.
C13_EachFindingGetsItsCorrection ==
    (PipeCompleted /\ FindingsDistinct
        /\ Len(transLog.lines) = Len(proofLog.lines))
    => EachLineAsExpected

\* C13 amended: the same, when moreover no finding's trimmed text occurs
\* in any other line of the document, before or after that line's
\* correction.
C13_EachFindingGetsItsCorrectionNoOverlap ==
    (PipeCompleted /\ FindingsDistinct /\ NoFindingInAnotherLine
        /\ Len(transLog.lines) = Len(proofLog.lines))
    => EachLineAsExpected

\* two findings, the first between blanks, around a line that is no
\* finding; both corrected in place
C13_Witness ==
    /\ PipeCompleted /\ FindingsDistinct /\ NoFindingInAnotherLine
    /\ target0.text = <<Ch.sp, Ch.han, Ch.sp, Ch.nl, Ch.lp, Ch.rp, Ch.nl, Ch.kana>>
    /\ transLog.lines = <<<<Ch.b>>, <<Ch.c>>>>
    /\ target.text = <<Ch.sp, Ch.b, Ch.sp, Ch.nl, Ch.lp, Ch.rp, Ch.nl, Ch.c>>
    /\ "w" \in fio

====
